---- MODULE Spec2Model ----
(***************************************************************************)
(* The inference run of poisson_Cu_Aiso_quad_Circle_inference.py as a      *)
(* state machine: one action per top-level statement of the script, in the *)
(* order the script executes them.  The finite element space assembler and *)
(* the data handler are library classes the script calls (Fespace2D,       *)
(* DataHandler2D); their behaviour is taken from the design document and   *)
(* is stepped cell by cell and boundary by boundary.                       *)
(*                                                                         *)
(* Numbers: mesh coordinates are integers (mesh units).  A tensor is a     *)
(* record [dtype, vals].  A boundary value (x - y) * cos(8xy) * 0.6 is the *)
(* pair <<6 * (x - y), 8 * x * y>>: the amplitude in tenths and the        *)
(* argument of the cosine.                                                 *)
(***************************************************************************)
EXTENDS Integers, Sequences, FiniteSets, TLC

VARIABLES
    pc,                     \* the statement the script is at
    error,                  \* the exception that ended the run, if any
    folder_exists,          \* output folder created (lines 159-161)
    bound_function_dict,    \* line 164
    bound_condition_dict,   \* line 164
    fe_params,              \* quad order/type, fe order, forcing function, dtype
    cells,                  \* read_mesh: the ordered cell sequence
    boundary_points,        \* read_mesh: boundary id -> ordered points
    asm,                    \* Fespace2D under construction
    fespace,                \* the constructed Fespace2D
    datahandler,            \* the constructed DataHandler2D
    params_dict,            \* lines 207-216
    train_dirichlet,        \* line 219: [set, input, output]
    bilinear_params_dict,   \* lines 224-232
    n_bilinear,             \* how often get_bilinear_params_dict was called
    model,                  \* what the name `model` is bound to
    dense_model,            \* the DenseModelAnisotropic of line 234
    seq_model,              \* the Sequential model of lines 268-302
    test_points,            \* line 259
    y_exact,                \* line 261
    y_pred,                 \* line 305
    metrics,                \* lines 306-325
    files                   \* result files written (lines 328-354)

vars == <<pc, error, folder_exists, bound_function_dict, bound_condition_dict,
          fe_params, cells, boundary_points, asm, fespace, datahandler,
          params_dict, train_dirichlet, bilinear_params_dict, n_bilinear,
          model, dense_model, seq_model, test_points, y_exact, y_pred,
          metrics, files>>

----------------------------------------------------------------------------
(* Bounds of the model *)

MaxCells == 2
MaxBdPts == 2
MaxTest == 2

----------------------------------------------------------------------------
(* Configuration constants of the script *)

i_fe_order == 4
(* Mutation: the quadrature order the comment beside i_quad_order describes. *)
i_quad_order_template == 5 + 5
i_quad_order == 5
i_fe_type == "legendre"
i_quad_type == "gauss-jacobi"
i_dtype == "float32"

----------------------------------------------------------------------------
(* The user functions of the script *)

bottom_boundary(x, y) == <<6 * (x - y), 8 * x * y>>
right_boundary(x, y) == <<6 * (x - y), 8 * x * y>>
top_boundary(x, y) == <<6 * (x - y), 8 * x * y>>
left_boundary(x, y) == <<6 * (x - y), 8 * x * y>>
exact_solution(x, y) == <<6 * (x - y), 8 * x * y>>

get_boundary_function_dict ==
    (1000 :> "bottom_boundary") @@ (1001 :> "right_boundary")
        @@ (1002 :> "top_boundary") @@ (1003 :> "left_boundary")

(* Mutation: one boundary is given a flux condition. *)
get_bound_cond_dict_neumann ==
    (1000 :> "dirichlet") @@ (1001 :> "dirichlet")
        @@ (1002 :> "dirichlet") @@ (1003 :> "neumann")

get_bound_cond_dict ==
    (1000 :> "dirichlet") @@ (1001 :> "dirichlet")
        @@ (1002 :> "dirichlet") @@ (1003 :> "dirichlet")

(* Mutation: a sign slip in the coefficient field. *)
get_bilinear_params_dict_plus(x, y) ==
    [eps |-> [dtype |-> x.dtype,
              vals |-> [i \in 1..Len(x.vals) |->
                          x.vals[i] * x.vals[i] + 3 * y.vals[i] + 2]]]

(* eps = x**2 - 3 * y + 2, elementwise over the two columns; the result   *)
(* is a dictionary with the one key "eps" and keeps the dtype of x.       *)
get_bilinear_params_dict(x, y) ==
    [eps |-> [dtype |-> x.dtype,
              vals |-> [i \in 1..Len(x.vals) |->
                          x.vals[i] * x.vals[i] - 3 * y.vals[i] + 2]]]

(* The boundary function named fn applied at point p. *)
ApplyBoundaryFunction(fn, p) ==
    CASE fn = "bottom_boundary" -> bottom_boundary(p[1], p[2])
      [] fn = "right_boundary" -> right_boundary(p[1], p[2])
      [] fn = "top_boundary" -> top_boundary(p[1], p[2])
      [] OTHER -> left_boundary(p[1], p[2])

----------------------------------------------------------------------------
(* Values and conversions *)

Abs(v) == IF v < 0 THEN -v ELSE v

(* tf.convert_to_tensor(t, dtype): an integer of magnitude up to 2^24 is  *)
(* a float32; a larger one (below 2^25) rounds to an even integer.        *)
RoundTo(dtype, v) ==
    IF dtype = "float32" /\ Abs(v) > 16777216
    THEN 2 * ((v + 1) \div 2) ELSE v
convert_to_tensor(t, dtype) ==
    [dtype |-> dtype, vals |-> [i \in 1..Len(t.vals) |-> RoundTo(dtype, t.vals[i])]]

(* Column k of an N x 2 tensor of points: x_pde_list[:, k-1:k]. *)
Column(t, k) == [dtype |-> t.dtype, vals |-> [i \in 1..Len(t.vals) |-> t.vals[i][k]]]

RECURSIVE Flatten(_)
Flatten(ss) == IF ss = <<>> THEN <<>> ELSE Head(ss) \o Flatten(Tail(ss))

Min(S) == CHOOSE m \in S : \A n \in S : m <= n

NoError == [kind |-> "none", id |-> 0]
SetupErrors == {"ConfigurationError", "GeometryError",
                "UnsupportedBoundaryConditionError",
                "MissingBoundaryFunctionError", "ShapeMismatchError"}

----------------------------------------------------------------------------
(* The mesh file and the problem setups the assembler may be given *)

CellPool == {[x0 |-> -10, y0 |-> 0, ccw |-> TRUE], [x0 |-> 0, y0 |-> -10, ccw |-> TRUE],
             [x0 |-> 0, y0 |-> -10, ccw |-> FALSE]}

RECURSIVE SeqsUpTo(_, _)
SeqsUpTo(S, n) ==
    IF n = 0 THEN {<<>>}
    ELSE LET shorter == SeqsUpTo(S, n - 1)
         IN shorter \cup {Append(s, e) : s \in {t \in shorter : Len(t) = n - 1}, e \in S}

Meshes == SeqsUpTo(CellPool, MaxCells) \ {<<>>}

MeshBoundaryIdSets == {{1000}, {1003}, {1004}, {1000, 1003}, {1000, 1004}, {1003, 1004}}

(* The points sampled on boundary id: nb points, distinct per id and position. *)
SampledPoints(id, nb, seed) == [k \in 1..nb |-> <<id - 1000 + seed, k - seed>>]

ScriptParams ==
    [fe_order |-> i_fe_order, fe_type |-> i_fe_type, quad_order |-> i_quad_order,
     quad_type |-> i_quad_type, forcing_function |-> "rhs", dtype |-> i_dtype]

FunctionDicts ==
    {get_boundary_function_dict,
     (1000 :> "bottom_boundary") @@ (1004 :> "left_boundary")}
ConditionDicts ==
    {get_bound_cond_dict,
     (1000 :> "dirichlet") @@ (1003 :> "neumann") @@ (1004 :> "dirichlet"),
     (1000 :> "neumann") @@ (1003 :> "dirichlet") @@ (1004 :> "dirichlet")}
ParamChoices ==
    {[ScriptParams EXCEPT !.quad_order = q, !.quad_type = t, !.forcing_function = f] :
        q \in {i_quad_order, 0}, t \in {i_quad_type, "unknown"},
        f \in {"rhs", "scalar"}}

----------------------------------------------------------------------------
(* Fespace2D: quadrature table, per-cell assembly, boundary data *)

QuadFamilies == {"gauss-jacobi", "gauss-legendre"}

(* Quadrature points per direction: order 5 gives 10. *)
NumQuad1D(order) == 2 * order
NumQuad(order) == NumQuad1D(order) * NumQuad1D(order)
(* Basis functions of the tensor-product space: (order + 1)^2. *)
NumBasis(order) == (order + 1) * (order + 1)

(* The physical quadrature points of a cell, in the rule's fixed order. *)
QuadPoints(cell, order) ==
    [q \in 1..NumQuad(order) |->
        <<cell.x0 + ((q - 1) \div NumQuad1D(order)),
          cell.y0 + ((q - 1) % NumQuad1D(order))>>]

(* The forcing function sampled at a cell's points: rhs is elementwise. *)
ForcingLen(fn, pts) == IF fn = "rhs" THEN Len(pts) ELSE 1

CellMatrix(kind, i, cell, p) ==
    [kind |-> kind, cell |-> i, x0 |-> cell.x0, y0 |-> cell.y0,
     rows |-> NumQuad(p.quad_order), cols |-> NumBasis(p.fe_order)]
CellForcing(i, cell, p) ==
    [kind |-> "forcing", cell |-> i, x0 |-> cell.x0, y0 |-> cell.y0,
     rows |-> ForcingLen(p.forcing_function, QuadPoints(cell, p.quad_order)),
     cols |-> 1]

ConfigDefect(p) ==
    IF p.quad_order <= 0 \/ p.quad_type \notin QuadFamilies
    THEN [kind |-> "ConfigurationError", id |-> 0] ELSE NoError

CellDefect(i, cell, p) ==
    IF ~cell.ccw THEN [kind |-> "GeometryError", id |-> i]
    ELSE IF CellForcing(i, cell, p).rows # NumQuad(p.quad_order)
    THEN [kind |-> "ShapeMismatchError", id |-> i] ELSE NoError

(* Every entry of the boundary condition map must be "dirichlet". *)
ConditionDefect(bcd) ==
    LET bad == {id \in DOMAIN bcd : bcd[id] # "dirichlet"}
    IN IF bad # {}
       THEN [kind |-> "UnsupportedBoundaryConditionError", id |-> Min(bad)]
       ELSE NoError

(* Mutation: the lookup of a missing boundary function surfaces as a bare *)
(* key error.                                                            *)
BoundaryDefect_KeyError(id, bfd) ==
    IF id \notin DOMAIN bfd THEN [kind |-> "KeyError", id |-> id] ELSE NoError

(* Every boundary id of the mesh must have a boundary function. *)
BoundaryDefect(id, bfd) ==
    IF id \notin DOMAIN bfd
    THEN [kind |-> "MissingBoundaryFunctionError", id |-> id] ELSE NoError

(* The (point, value) pairs of one boundary id, in the order of its points. *)
BoundaryValues(id, pts, bfd) ==
    [k \in 1..Len(pts) |-> ApplyBoundaryFunction(bfd[id], pts[k])]

EmptyAsm ==
    [phase |-> "idle", k |-> 0, shape |-> <<>>, gradx |-> <<>>, grady |-> <<>>,
     force |-> <<>>, pts |-> <<>>, ids |-> {}, bd_in |-> <<>>, bd_out |-> <<>>,
     bd_id |-> <<>>]

NoFespace ==
    [built |-> FALSE, n_cells |-> 0, shape |-> <<>>, gradx |-> <<>>, grady |-> <<>>,
     force |-> <<>>, pts |-> <<>>, bd_in |-> <<>>, bd_out |-> <<>>, bd_id |-> <<>>]

----------------------------------------------------------------------------
(* DataHandler2D *)

NoDataHandler ==
    [built |-> FALSE, x_pde_list |-> [dtype |-> "none", vals |-> <<>>],
     shape_val_mat_list |-> <<>>, grad_x_mat_list |-> <<>>, grad_y_mat_list |-> <<>>,
     forcing_function_list |-> <<>>,
     dirichlet_input |-> [dtype |-> "none", vals |-> <<>>],
     dirichlet_output |-> [dtype |-> "none", vals |-> <<>>],
     dirichlet_id |-> <<>>]

(* The per-cell structures flattened in cell order, as tensors of dtype. *)
BuildDataHandler(fs, dtype) ==
    [built |-> TRUE,
     x_pde_list |-> [dtype |-> dtype, vals |-> Flatten(fs.pts)],
     shape_val_mat_list |-> fs.shape, grad_x_mat_list |-> fs.gradx,
     grad_y_mat_list |-> fs.grady, forcing_function_list |-> fs.force,
     dirichlet_input |-> [dtype |-> dtype, vals |-> fs.bd_in],
     dirichlet_output |-> [dtype |-> dtype, vals |-> fs.bd_out],
     dirichlet_id |-> fs.bd_id]

get_dirichlet_input(dh) == <<dh.dirichlet_input, dh.dirichlet_output>>

----------------------------------------------------------------------------
(* The run *)

NoTensor == [dtype |-> "none", vals |-> <<>>]
NoDense ==
    [built |-> FALSE, input_tensors_list |-> <<>>, orig_factor_matrices |-> <<>>,
     force_function_list |-> <<>>, params_dict |-> <<>>, predictions |-> 0]
NoSequential ==
    [built |-> FALSE, layers |-> <<>>, weights |-> "none", predictions |-> 0]

Init ==
    /\ pc = "start"
    /\ error = NoError
    /\ folder_exists \in BOOLEAN
    /\ bound_function_dict = <<>>
    /\ bound_condition_dict = <<>>
    /\ fe_params = ScriptParams
    /\ cells = <<>>
    /\ boundary_points = <<>>
    /\ asm = EmptyAsm
    /\ fespace = NoFespace
    /\ datahandler = NoDataHandler
    /\ params_dict = <<>>
    /\ train_dirichlet = [set |-> FALSE, input |-> NoTensor, output |-> NoTensor]
    /\ bilinear_params_dict = <<>>
    /\ n_bilinear = 0
    /\ model = "unbound"
    /\ dense_model = NoDense
    /\ seq_model = NoSequential
    /\ test_points = <<>>
    /\ y_exact = <<>>
    /\ y_pred = <<>>
    /\ metrics = [computed |-> FALSE, n |-> 0]
    /\ files = {}

(* Mutation: the failing statement is wrapped in a try/except that only   *)
(* records the error, and the script goes on.                            *)
RaiseSwallowed(e) ==
    /\ error' = e
    /\ pc' = IF pc = "fespace" THEN "datahandler" ELSE "predict"

(* An exception no statement of the script catches: the run ends. *)
Raise(e) ==
    /\ error' = e
    /\ pc' = "aborted"

(* lines 159-161 *)
MkDir ==
    /\ pc = "start"
    /\ folder_exists' = TRUE
    /\ pc' = "dicts"
    /\ UNCHANGED <<error, bound_function_dict, bound_condition_dict, fe_params, cells,
                   boundary_points, asm, fespace, datahandler, params_dict,
                   train_dirichlet, bilinear_params_dict, n_bilinear, model,
                   dense_model, seq_model, test_points, y_exact, y_pred, metrics, files>>

(* lines 164-167 *)
LoadDicts ==
    /\ pc = "dicts"
    /\ bound_function_dict' = get_boundary_function_dict
    /\ bound_condition_dict' = get_bound_cond_dict
    /\ pc' = "read_mesh"
    /\ UNCHANGED <<error, folder_exists, fe_params, cells, boundary_points, asm, fespace,
                   datahandler, params_dict, train_dirichlet, bilinear_params_dict,
                   n_bilinear, model, dense_model, seq_model, test_points, y_exact,
                   y_pred, metrics, files>>

(* The assembler under any caller: any boundary maps, any parameters. *)
AnySetup ==
    /\ pc = "dicts"
    /\ \E f \in FunctionDicts, c \in ConditionDicts, p \in ParamChoices :
          /\ DOMAIN f \subseteq DOMAIN c
          /\ bound_function_dict' = f
          /\ bound_condition_dict' = c
          /\ fe_params' = p
    /\ pc' = "read_mesh"
    /\ UNCHANGED <<error, folder_exists, cells, boundary_points, asm, fespace,
                   datahandler, params_dict, train_dirichlet, bilinear_params_dict,
                   n_bilinear, model, dense_model, seq_model, test_points, y_exact,
                   y_pred, metrics, files>>

(* lines 170-184: the mesh file's cells and sampled boundary points *)
ReadMesh ==
    /\ pc = "read_mesh"
    /\ \E m \in Meshes, ids \in MeshBoundaryIdSets, nb \in 1..MaxBdPts, seed \in {0, 1} :
          /\ cells' = m
          /\ boundary_points' = [id \in ids |-> SampledPoints(id, nb, seed)]
    /\ pc' = "fespace"
    /\ UNCHANGED <<error, folder_exists, bound_function_dict, bound_condition_dict,
                   fe_params, asm, fespace, datahandler, params_dict, train_dirichlet,
                   bilinear_params_dict, n_bilinear, model, dense_model, seq_model,
                   test_points, y_exact, y_pred, metrics, files>>

(* lines 187-202, first step: the quadrature rule and basis are set up *)
FespaceConfig ==
    /\ pc = "fespace"
    /\ asm.phase = "idle"
    /\ IF ConfigDefect(fe_params) # NoError
       THEN Raise(ConfigDefect(fe_params)) /\ asm' = EmptyAsm
       ELSE /\ asm' = [EmptyAsm EXCEPT !.phase = "cells", !.ids = DOMAIN boundary_points]
            /\ UNCHANGED <<pc, error>>
    /\ UNCHANGED <<folder_exists, bound_function_dict, bound_condition_dict, fe_params,
                   cells, boundary_points, fespace, datahandler, params_dict,
                   train_dirichlet, bilinear_params_dict, n_bilinear, model,
                   dense_model, seq_model, test_points, y_exact, y_pred, metrics, files>>

(* lines 187-202, per cell: the next cell of the cell sequence is assembled *)
AssembleCell ==
    /\ pc = "fespace"
    /\ asm.phase = "cells"
    /\ LET i == asm.k + 1
           c == cells[i]
       IN IF CellDefect(i, c, fe_params) # NoError
          THEN Raise(CellDefect(i, c, fe_params)) /\ asm' = EmptyAsm
          ELSE /\ asm' = [asm EXCEPT
                     !.k = i,
                     !.shape = Append(@, CellMatrix("shape", i, c, fe_params)),
                     !.gradx = Append(@, CellMatrix("grad_x", i, c, fe_params)),
                     !.grady = Append(@, CellMatrix("grad_y", i, c, fe_params)),
                     !.force = Append(@, CellForcing(i, c, fe_params)),
                     !.pts = Append(@, QuadPoints(c, fe_params.quad_order)),
                     !.phase = IF i = Len(cells) THEN "conditions" ELSE "cells"]
               /\ UNCHANGED <<pc, error>>
    /\ UNCHANGED <<folder_exists, bound_function_dict, bound_condition_dict, fe_params,
                   cells, boundary_points, fespace, datahandler, params_dict,
                   train_dirichlet, bilinear_params_dict, n_bilinear, model,
                   dense_model, seq_model, test_points, y_exact, y_pred, metrics, files>>

(* lines 187-202, after the cells: the boundary condition kinds are checked *)
CheckConditions ==
    /\ pc = "fespace"
    /\ asm.phase = "conditions"
    /\ IF ConditionDefect(bound_condition_dict) # NoError
       THEN Raise(ConditionDefect(bound_condition_dict)) /\ asm' = EmptyAsm
       ELSE /\ asm' = [asm EXCEPT !.phase = "boundary"]
            /\ UNCHANGED <<pc, error>>
    /\ UNCHANGED <<folder_exists, bound_function_dict, bound_condition_dict, fe_params,
                   cells, boundary_points, fespace, datahandler, params_dict,
                   train_dirichlet, bilinear_params_dict, n_bilinear, model,
                   dense_model, seq_model, test_points, y_exact, y_pred, metrics, files>>

(* lines 187-202, per boundary id: its sampled points and Dirichlet values *)
AssembleBoundary ==
    /\ pc = "fespace"
    /\ asm.phase = "boundary"
    /\ asm.ids # {}
    /\ LET id == Min(asm.ids)
           d == BoundaryDefect(id, bound_function_dict)
           pts == boundary_points[id]
       IN IF d # NoError
          THEN Raise(d) /\ asm' = EmptyAsm
          ELSE /\ asm' = [asm EXCEPT
                     !.ids = @ \ {id},
                     !.bd_in = @ \o pts,
                     !.bd_out = @ \o BoundaryValues(id, pts, bound_function_dict),
                     !.bd_id = @ \o [k \in 1..Len(pts) |-> id]]
               /\ UNCHANGED <<pc, error>>
    /\ UNCHANGED <<folder_exists, bound_function_dict, bound_condition_dict, fe_params,
                   cells, boundary_points, fespace, datahandler, params_dict,
                   train_dirichlet, bilinear_params_dict, n_bilinear, model,
                   dense_model, seq_model, test_points, y_exact, y_pred, metrics, files>>

(* lines 187-202, last step: the constructor returns the assembled space *)
FespaceReturn ==
    /\ pc = "fespace"
    /\ asm.phase = "boundary"
    /\ asm.ids = {}
    /\ fespace' = [built |-> TRUE, n_cells |-> asm.k, shape |-> asm.shape,
                   gradx |-> asm.gradx, grady |-> asm.grady, force |-> asm.force,
                   pts |-> asm.pts, bd_in |-> asm.bd_in, bd_out |-> asm.bd_out,
                   bd_id |-> asm.bd_id]
    /\ asm' = EmptyAsm
    /\ pc' = "datahandler"
    /\ UNCHANGED <<error, folder_exists, bound_function_dict, bound_condition_dict,
                   fe_params, cells, boundary_points, datahandler, params_dict,
                   train_dirichlet, bilinear_params_dict, n_bilinear, model,
                   dense_model, seq_model, test_points, y_exact, y_pred, metrics, files>>

(* lines 205-216 *)
BuildDataHandler2D ==
    /\ pc = "datahandler"
    /\ datahandler' = BuildDataHandler(fespace, fe_params.dtype)
    /\ params_dict' = [n_cells |-> fespace.n_cells]
    /\ pc' = "dirichlet"
    /\ UNCHANGED <<error, folder_exists, bound_function_dict, bound_condition_dict,
                   fe_params, cells, boundary_points, asm, fespace, train_dirichlet,
                   bilinear_params_dict, n_bilinear, model, dense_model, seq_model,
                   test_points, y_exact, y_pred, metrics, files>>

(* Mutation: the pair is unpacked in the wrong order. *)
GetDirichletInput_Swapped ==
    /\ pc = "dirichlet"
    /\ train_dirichlet' = [set |-> TRUE,
                           input |-> get_dirichlet_input(datahandler)[2],
                           output |-> get_dirichlet_input(datahandler)[1]]
    /\ pc' = "bilinear"
    /\ UNCHANGED <<error, folder_exists, bound_function_dict, bound_condition_dict,
                   fe_params, cells, boundary_points, asm, fespace, datahandler,
                   params_dict, bilinear_params_dict, n_bilinear, model, dense_model,
                   seq_model, test_points, y_exact, y_pred, metrics, files>>

(* line 219 *)
GetDirichletInput ==
    /\ pc = "dirichlet"
    /\ train_dirichlet' = [set |-> TRUE,
                           input |-> get_dirichlet_input(datahandler)[1],
                           output |-> get_dirichlet_input(datahandler)[2]]
    /\ pc' = "bilinear"
    /\ UNCHANGED <<error, folder_exists, bound_function_dict, bound_condition_dict,
                   fe_params, cells, boundary_points, asm, fespace, datahandler,
                   params_dict, bilinear_params_dict, n_bilinear, model, dense_model,
                   seq_model, test_points, y_exact, y_pred, metrics, files>>

(* Mutation: the coefficient is computed in place on the x column of the *)
(* collocation array.                                                    *)
ComputeBilinear_InPlace ==
    /\ pc = "bilinear"
    /\ bilinear_params_dict' =
          get_bilinear_params_dict(Column(datahandler.x_pde_list, 1),
                                   Column(datahandler.x_pde_list, 2))
    /\ datahandler' =
          [datahandler EXCEPT !.x_pde_list.vals =
              [i \in 1..Len(@) |-> <<@[i][1] * @[i][1], @[i][2]>>]]
    /\ n_bilinear' = n_bilinear + 1
    /\ pc' = "convert"
    /\ UNCHANGED <<error, folder_exists, bound_function_dict, bound_condition_dict,
                   fe_params, cells, boundary_points, asm, fespace,
                   params_dict, train_dirichlet, model, dense_model, seq_model,
                   test_points, y_exact, y_pred, metrics, files>>

(* lines 224-226 *)
ComputeBilinear ==
    /\ pc = "bilinear"
    /\ bilinear_params_dict' =
          get_bilinear_params_dict(Column(datahandler.x_pde_list, 1),
                                   Column(datahandler.x_pde_list, 2))
    /\ n_bilinear' = n_bilinear + 1
    /\ pc' = "convert"
    /\ UNCHANGED <<error, folder_exists, bound_function_dict, bound_condition_dict,
                   fe_params, cells, boundary_points, asm, fespace, datahandler,
                   params_dict, train_dirichlet, model, dense_model, seq_model,
                   test_points, y_exact, y_pred, metrics, files>>

(* lines 229-232: every key of the dictionary *)
ConvertBilinear ==
    /\ pc = "convert"
    /\ bilinear_params_dict' =
          [key \in DOMAIN bilinear_params_dict |->
              convert_to_tensor(bilinear_params_dict[key], i_dtype)]
    /\ pc' = "dense_model"
    /\ UNCHANGED <<error, folder_exists, bound_function_dict, bound_condition_dict,
                   fe_params, cells, boundary_points, asm, fespace, datahandler,
                   params_dict, train_dirichlet, n_bilinear, model, dense_model,
                   seq_model, test_points, y_exact, y_pred, metrics, files>>

Reverse(q) == [i \in 1..Len(q) |-> q[Len(q) + 1 - i]]

(* Mutation: the forcing vectors are handed to the model in reverse cell *)
(* order.                                                                *)
BuildDenseModel_Reversed ==
    /\ pc = "dense_model"
    /\ dense_model' =
          [built |-> TRUE,
           input_tensors_list |-> <<datahandler.x_pde_list, train_dirichlet.input,
                                    train_dirichlet.output>>,
           orig_factor_matrices |-> <<datahandler.shape_val_mat_list,
                                      datahandler.grad_x_mat_list,
                                      datahandler.grad_y_mat_list>>,
           force_function_list |-> Reverse(datahandler.forcing_function_list),
           params_dict |-> params_dict,
           predictions |-> 0]
    /\ model' = "DenseModelAnisotropic"
    /\ pc' = "test_points"
    /\ UNCHANGED <<error, folder_exists, bound_function_dict, bound_condition_dict,
                   fe_params, cells, boundary_points, asm, fespace, datahandler,
                   params_dict, train_dirichlet, bilinear_params_dict, n_bilinear,
                   seq_model, test_points, y_exact, y_pred, metrics, files>>

(* lines 234-252 *)
BuildDenseModel ==
    /\ pc = "dense_model"
    /\ dense_model' =
          [built |-> TRUE,
           input_tensors_list |-> <<datahandler.x_pde_list, train_dirichlet.input,
                                    train_dirichlet.output>>,
           orig_factor_matrices |-> <<datahandler.shape_val_mat_list,
                                      datahandler.grad_x_mat_list,
                                      datahandler.grad_y_mat_list>>,
           force_function_list |-> datahandler.forcing_function_list,
           params_dict |-> params_dict,
           predictions |-> 0]
    /\ model' = "DenseModelAnisotropic"
    /\ pc' = "test_points"
    /\ UNCHANGED <<error, folder_exists, bound_function_dict, bound_condition_dict,
                   fe_params, cells, boundary_points, asm, fespace, datahandler,
                   params_dict, train_dirichlet, bilinear_params_dict, n_bilinear,
                   seq_model, test_points, y_exact, y_pred, metrics, files>>

(* lines 259-261: some test points of the domain, and the exact solution *)
(* at each of them                                                       *)
LoadTestPoints ==
    /\ pc = "test_points"
    /\ \E n \in 1..MaxTest :
          /\ test_points' = [k \in 1..n |-> <<k, 1 - k>>]
          /\ y_exact' = [k \in 1..n |-> exact_solution(k, 1 - k)]
    /\ pc' = "sequential"
    /\ UNCHANGED <<error, folder_exists, bound_function_dict, bound_condition_dict,
                   fe_params, cells, boundary_points, asm, fespace, datahandler,
                   params_dict, train_dirichlet, bilinear_params_dict, n_bilinear,
                   model, dense_model, seq_model, y_pred, metrics, files>>

(* Mutation: the Sequential model is built under another name, and model *)
(* stays bound to the DenseModelAnisotropic.                             *)
BuildSequential_NoRebind ==
    /\ pc = "sequential"
    /\ seq_model' = [built |-> TRUE, layers |-> <<30, 30, 30, 1>>,
                     weights |-> "glorot_uniform", predictions |-> 0]
    /\ pc' = "load_weights"
    /\ UNCHANGED <<error, folder_exists, bound_function_dict, bound_condition_dict,
                   fe_params, cells, boundary_points, asm, fespace, datahandler,
                   params_dict, train_dirichlet, bilinear_params_dict, n_bilinear,
                   model, dense_model, test_points, y_exact, y_pred, metrics, files>>

(* lines 265-298: the name model is bound to a new Sequential model *)
BuildSequential ==
    /\ pc = "sequential"
    /\ seq_model' = [built |-> TRUE, layers |-> <<30, 30, 30, 1>>,
                     weights |-> "glorot_uniform", predictions |-> 0]
    /\ model' = "Sequential"
    /\ pc' = "load_weights"
    /\ UNCHANGED <<error, folder_exists, bound_function_dict, bound_condition_dict,
                   fe_params, cells, boundary_points, asm, fespace, datahandler,
                   params_dict, train_dirichlet, bilinear_params_dict, n_bilinear,
                   dense_model, test_points, y_exact, y_pred, metrics, files>>

(* lines 301-302: the weights file is there, or load_weights raises *)
LoadWeights ==
    /\ pc = "load_weights"
    /\ \E file_ok \in BOOLEAN :
          IF file_ok
          THEN /\ seq_model' = [seq_model EXCEPT !.weights = "file"]
               /\ pc' = "predict"
               /\ UNCHANGED error
          ELSE /\ Raise([kind |-> "LoadWeightsError", id |-> 0])
               /\ UNCHANGED seq_model
    /\ UNCHANGED <<folder_exists, bound_function_dict, bound_condition_dict,
                   fe_params, cells, boundary_points, asm, fespace, datahandler,
                   params_dict, train_dirichlet, bilinear_params_dict, n_bilinear,
                   model, dense_model, test_points, y_exact, y_pred, metrics, files>>

(* line 305: the model the name is bound to is called on the test points *)
Predict ==
    /\ pc = "predict"
    /\ y_pred' = [k \in 1..Len(test_points) |->
                    [by |-> model,
                     weights |-> IF model = "Sequential" THEN seq_model.weights
                                 ELSE "untrained",
                     pt |-> test_points[k]]]
    /\ IF model = "Sequential"
       THEN /\ seq_model' = [seq_model EXCEPT !.predictions = @ + 1]
            /\ UNCHANGED dense_model
       ELSE /\ dense_model' = [dense_model EXCEPT !.predictions = @ + 1]
            /\ UNCHANGED seq_model
    /\ pc' = "errors"
    /\ UNCHANGED <<error, folder_exists, bound_function_dict, bound_condition_dict,
                   fe_params, cells, boundary_points, asm, fespace, datahandler,
                   params_dict, train_dirichlet, bilinear_params_dict, n_bilinear,
                   model, test_points, y_exact, metrics, files>>

(* lines 306-325 *)
ComputeErrors ==
    /\ pc = "errors"
    /\ metrics' = [computed |-> TRUE, n |-> Len(y_pred)]
    /\ pc' = "save"
    /\ UNCHANGED <<error, folder_exists, bound_function_dict, bound_condition_dict,
                   fe_params, cells, boundary_points, asm, fespace, datahandler,
                   params_dict, train_dirichlet, bilinear_params_dict, n_bilinear,
                   model, dense_model, seq_model, test_points, y_exact, y_pred, files>>

(* lines 328-333 *)
SaveResults ==
    /\ pc = "save"
    /\ files' = files \cup {"y_exact.csv", "y_pred.csv", "error.csv"}
    /\ pc' = "plots"
    /\ UNCHANGED <<error, folder_exists, bound_function_dict, bound_condition_dict,
                   fe_params, cells, boundary_points, asm, fespace, datahandler,
                   params_dict, train_dirichlet, bilinear_params_dict, n_bilinear,
                   model, dense_model, seq_model, test_points, y_exact, y_pred, metrics>>

(* lines 336-355 *)
PlotResults ==
    /\ pc = "plots"
    /\ files' = files \cup {"exact_solution.png", "predicted_solution.png",
                            "error_plot.png"}
    /\ pc' = "done"
    /\ UNCHANGED <<error, folder_exists, bound_function_dict, bound_condition_dict,
                   fe_params, cells, boundary_points, asm, fespace, datahandler,
                   params_dict, train_dirichlet, bilinear_params_dict, n_bilinear,
                   model, dense_model, seq_model, test_points, y_exact, y_pred, metrics>>

Pipeline ==
    \/ MkDir \/ ReadMesh \/ FespaceConfig \/ AssembleCell \/ CheckConditions
    \/ AssembleBoundary \/ FespaceReturn \/ BuildDataHandler2D \/ GetDirichletInput \/ ComputeBilinear
    \/ ConvertBilinear \/ BuildDenseModel \/ LoadTestPoints \/ BuildSequential
    \/ LoadWeights \/ Predict \/ ComputeErrors \/ SaveResults \/ PlotResults

Next == LoadDicts \/ Pipeline
Spec == Init /\ [][Next]_vars

NextAsm == AnySetup \/ Pipeline
SpecAsm == Init /\ [][NextAsm]_vars

----------------------------------------------------------------------------
(* Properties *)

PastAssembly == pc \notin {"start", "dicts", "read_mesh", "fespace"}

MissingIds == DOMAIN boundary_points \ DOMAIN bound_function_dict
NonDirichletIds ==
    {id \in DOMAIN bound_condition_dict : bound_condition_dict[id] # "dirichlet"}
CellsSound ==
    /\ fe_params.quad_order > 0
    /\ fe_params.quad_type \in QuadFamilies
    /\ fe_params.forcing_function = "rhs"
    /\ \A i \in 1..Len(cells) : cells[i].ccw

NoBoundaryPairs ==
    /\ asm.bd_in = <<>> /\ asm.bd_out = <<>>
    /\ fespace.bd_in = <<>> /\ fespace.bd_out = <<>>
    /\ datahandler.dirichlet_input.vals = <<>>
    /\ datahandler.dirichlet_output.vals = <<>>
    /\ ~train_dirichlet.set

(* C1: a completed assembly has a boundary function for every boundary id  *)
(* of the mesh; with an id that has none the assembly never completes, a   *)
(* MissingBoundaryFunctionError names an id of the mesh that has no        *)
(* function, and it is the error raised when nothing else is wrong.        *)
C1_MissingBoundaryFunction ==
    /\ fespace.built => MissingIds = {}
    /\ error.kind = "MissingBoundaryFunctionError" =>
          /\ error.id \in MissingIds
          /\ pc = "aborted"
          /\ ~fespace.built
    /\ (PastAssembly /\ MissingIds # {}) =>
          /\ pc = "aborted"
          /\ error.kind \in SetupErrors
          /\ ~fespace.built
    /\ (PastAssembly /\ MissingIds # {} /\ CellsSound /\ NonDirichletIds = {}) =>
          error.kind = "MissingBoundaryFunctionError"

C1_Witness ==
    /\ pc = "aborted"
    /\ error = [kind |-> "MissingBoundaryFunctionError", id |-> 1004]
    /\ 1000 \in DOMAIN boundary_points

(* C2: the script's boundary condition map holds only "dirichlet"; with    *)
(* any other kind in the map the assembly never completes and the run has  *)
(* no boundary (point, value) pairs, an UnsupportedBoundaryConditionError  *)
(* names an id of that kind, and it is the error raised when nothing else  *)
(* is wrong.                                                               *)
C2_OnlyDirichlet ==
    /\ \A id \in DOMAIN get_bound_cond_dict : get_bound_cond_dict[id] = "dirichlet"
    /\ fespace.built => NonDirichletIds = {}
    /\ error.kind = "UnsupportedBoundaryConditionError" =>
          /\ error.id \in NonDirichletIds
          /\ pc = "aborted"
    /\ NonDirichletIds # {} => NoBoundaryPairs
    /\ (PastAssembly /\ NonDirichletIds # {}) =>
          /\ pc = "aborted"
          /\ error.kind \in SetupErrors
    /\ (PastAssembly /\ NonDirichletIds # {} /\ CellsSound /\ MissingIds = {}) =>
          error.kind = "UnsupportedBoundaryConditionError"

C2_Witness ==
    /\ pc = "aborted"
    /\ error = [kind |-> "UnsupportedBoundaryConditionError", id |-> 1003]
    /\ NoBoundaryPairs
    /\ Len(cells) = MaxCells

NothingAfterAssembly ==
    /\ ~fespace.built
    /\ ~datahandler.built
    /\ ~train_dirichlet.set
    /\ n_bilinear = 0
    /\ model = "unbound"
    /\ ~dense_model.built
    /\ ~seq_model.built
    /\ y_pred = <<>>
    /\ ~metrics.computed
    /\ files = {}

(* C3: a problem-setup error is raised while the finite element space is   *)
(* being constructed; in a state with such an error the run is aborted,    *)
(* no data handler and no model exists, nothing was predicted and no       *)
(* result file was written, and no step follows it.                        *)
C3_SetupErrorsAbort ==
    /\ [](error.kind \in SetupErrors => (pc = "aborted" /\ NothingAfterAssembly))
    /\ [][(error'.kind \in SetupErrors /\ error.kind \notin SetupErrors)
            => pc = "fespace"]_vars
    /\ [][error.kind \in SetupErrors => UNCHANGED vars]_vars

C3_Witness ==
    /\ pc = "aborted"
    /\ error = [kind |-> "GeometryError", id |-> MaxCells]
    /\ folder_exists

RECURSIVE SumLens(_, _)
SumLens(f, S) ==
    IF S = {} THEN 0
    ELSE LET id == Min(S) IN Len(f[id]) + SumLens(f, S \ {id})

(* C4: the Dirichlet inputs and targets the script receives have the same  *)
(* length, one entry per sampled boundary point of every boundary id, and  *)
(* the i-th target is the boundary function of the i-th point's boundary   *)
(* id at the i-th point.                                                   *)
C4_DirichletAligned ==
    train_dirichlet.set =>
        LET in == train_dirichlet.input.vals
            out == train_dirichlet.output.vals
            ids == datahandler.dirichlet_id
        IN /\ Len(in) = Len(out)
           /\ Len(in) = Len(ids)
           /\ Len(in) = SumLens(boundary_points, DOMAIN boundary_points)
           /\ \A i \in 1..Len(in) :
                 /\ ids[i] \in DOMAIN boundary_points
                 /\ \E k \in 1..Len(boundary_points[ids[i]]) :
                       in[i] = boundary_points[ids[i]][k]
                 /\ out[i] = ApplyBoundaryFunction(bound_function_dict[ids[i]], in[i])
           /\ \A id \in DOMAIN boundary_points :
                 \A k \in 1..Len(boundary_points[id]) :
                    \E i \in 1..Len(in) :
                       ids[i] = id /\ in[i] = boundary_points[id][k]

C4_Witness ==
    /\ train_dirichlet.set
    /\ Len(train_dirichlet.input.vals) = 2 * MaxBdPts
    /\ DOMAIN boundary_points = {1000, 1003}

Block(rows, i, n) == SubSeq(rows, (i - 1) * n + 1, i * n)

OfCell(entry, i) ==
    /\ entry.cell = i
    /\ entry.x0 = cells[i].x0
    /\ entry.y0 = cells[i].y0

(* C6: the data handler exists only once every cell is assembled; the i-th *)
(* entry of the shape-value, x-gradient, y-gradient and forcing lists and  *)
(* the i-th block of collocation points all belong to the i-th cell of the *)
(* mesh, in the data handler and as handed to the model.                   *)
C6_CellOrder ==
    /\ datahandler.built =>
          /\ fespace.built
          /\ fespace.n_cells = Len(cells)
          /\ Len(datahandler.shape_val_mat_list) = Len(cells)
          /\ Len(datahandler.grad_x_mat_list) = Len(cells)
          /\ Len(datahandler.grad_y_mat_list) = Len(cells)
          /\ Len(datahandler.forcing_function_list) = Len(cells)
          /\ \A i \in 1..Len(cells) :
                /\ OfCell(datahandler.shape_val_mat_list[i], i)
                /\ datahandler.shape_val_mat_list[i].kind = "shape"
                /\ OfCell(datahandler.grad_x_mat_list[i], i)
                /\ datahandler.grad_x_mat_list[i].kind = "grad_x"
                /\ OfCell(datahandler.grad_y_mat_list[i], i)
                /\ datahandler.grad_y_mat_list[i].kind = "grad_y"
                /\ OfCell(datahandler.forcing_function_list[i], i)
                /\ Block(datahandler.x_pde_list.vals, i, NumQuad(i_quad_order))
                      = QuadPoints(cells[i], i_quad_order)
    /\ dense_model.built =>
          /\ Len(dense_model.force_function_list) = Len(cells)
          /\ \A m \in 1..3 : Len(dense_model.orig_factor_matrices[m]) = Len(cells)
          /\ \A i \in 1..Len(cells) :
                /\ OfCell(dense_model.force_function_list[i], i)
                /\ \A m \in 1..3 : OfCell(dense_model.orig_factor_matrices[m][i], i)

C6_Witness ==
    /\ dense_model.built
    /\ Len(cells) = MaxCells
    /\ cells[1] # cells[MaxCells]

(* C7: once the data handler is built, no step changes the assembled       *)
(* tensors: the finite element space, the data handler's arrays and lists, *)
(* and the Dirichlet pair the script took from it.                         *)
C7_TensorsImmutable ==
    [][(datahandler.built =>
            /\ datahandler' = datahandler
            /\ fespace' = fespace)
       /\ (train_dirichlet.set => train_dirichlet' = train_dirichlet)
       /\ (dense_model.built =>
            /\ dense_model'.input_tensors_list = dense_model.input_tensors_list
            /\ dense_model'.orig_factor_matrices = dense_model.orig_factor_matrices
            /\ dense_model'.force_function_list = dense_model.force_function_list)]_vars

C7_Witness ==
    /\ pc = "done"
    /\ datahandler.built
    /\ Len(datahandler.x_pde_list.vals) > 0
    /\ dense_model.input_tensors_list[1] = datahandler.x_pde_list

EpsComputed ==
    /\ DOMAIN bilinear_params_dict = {"eps"}
    /\ Len(bilinear_params_dict["eps"].vals) = Len(datahandler.x_pde_list.vals)
    /\ \A i \in 1..Len(datahandler.x_pde_list.vals) :
          LET x == datahandler.x_pde_list.vals[i][1]
              y == datahandler.x_pde_list.vals[i][2]
          IN bilinear_params_dict["eps"].vals[i] = (x * x) - (3 * y) + 2

(* C9: the bilinear coefficients are computed at most once, with the data  *)
(* handler built and no model constructed yet; the result has the one      *)
(* field "eps" with one value x^2 - 3y + 2 per collocation point; and when *)
(* a model is constructed the computation has happened once and every      *)
(* field has the configured dtype.                                         *)
C9_BilinearCoefficients ==
    /\ n_bilinear <= 1
    /\ n_bilinear = 0 => (bilinear_params_dict = <<>> /\ ~dense_model.built
                            /\ ~seq_model.built)
    /\ n_bilinear = 1 => (datahandler.built /\ EpsComputed)
    /\ pc \in {"bilinear", "convert"} => (~dense_model.built /\ ~seq_model.built
                                            /\ model = "unbound")
    /\ (dense_model.built \/ seq_model.built) =>
          /\ n_bilinear = 1
          /\ \A key \in DOMAIN bilinear_params_dict :
                bilinear_params_dict[key].dtype = i_dtype

C9_Witness ==
    /\ dense_model.built
    /\ n_bilinear = 1
    /\ Len(bilinear_params_dict["eps"].vals) = MaxCells * 100
    /\ \E i \in 1..Len(bilinear_params_dict["eps"].vals) :
          bilinear_params_dict["eps"].vals[i] # 2

(* C10: predictions come from the Sequential model with the weights of the *)
(* file loaded; build, load_weights, predict, errors and result files      *)
(* happen in that order; the DenseModelAnisotropic never predicts; and a   *)
(* failed load_weights leaves no prediction and no result file.            *)
C10_PredictAfterLoad ==
    /\ \A k \in 1..Len(y_pred) :
          y_pred[k].by = "Sequential" /\ y_pred[k].weights = "file"
    /\ dense_model.predictions = 0
    /\ seq_model.weights = "file" => seq_model.built
    /\ seq_model.built => model = "Sequential"
    /\ pc = "predict" => (model = "Sequential" /\ seq_model.weights = "file")
    /\ y_pred # <<>> => (seq_model.predictions = 1 /\ seq_model.weights = "file"
                           /\ Len(y_pred) = Len(test_points))
    /\ metrics.computed => (y_pred # <<>> /\ metrics.n = Len(y_pred))
    /\ files # {} => metrics.computed
    /\ pc = "done" => {"y_exact.csv", "y_pred.csv", "error.csv"} \subseteq files
    /\ error.kind = "LoadWeightsError" =>
          /\ pc = "aborted"
          /\ seq_model.weights # "file"
          /\ y_pred = <<>>
          /\ ~metrics.computed
          /\ files = {}

C10_Witness ==
    /\ pc = "done"
    /\ Len(y_pred) = MaxTest
    /\ dense_model.built
    /\ files # {}

C10_WitnessLoadFails ==
    /\ pc = "aborted"
    /\ error.kind = "LoadWeightsError"

====
